---- MODULE Spec2Model ----
(***************************************************************************)
(* A model of srec-rs: the S-record line decoder Record::parse_from_str    *)
(* (src/src/record.rs) and the image builder SRecord::<MAX>::from_srec     *)
(* (src/src/lib.rs) with its sort / merge / split passes over the data     *)
(* spans.                                                                  *)
(*                                                                         *)
(* A line of text is a sequence of one-character strings.  A byte is a     *)
(* number in 0..255.  Addresses are u32 values; every input of the model   *)
(* keeps its addresses below 2^31 (the largest number TLC holds), so no    *)
(* u32 addition of the code wraps or panics in the states explored here.   *)
(***************************************************************************)
EXTENDS Integers, Sequences, FiniteSets, TLC

VARIABLES
    MAX,            \* the const generic parameter of SRecord<MAX>
    file,           \* the lines the BufReader yields: [ok, text]
    pc,             \* position of the call
    idx,            \* lines consumed by the `for line in reader.lines()` loop
    records,        \* let mut records
    regions,        \* let mut regions: (addr, size) spans
    data,           \* let mut data
    merged,         \* let mut merged
    final_regions,  \* let mut final_regions
    cursor,         \* spans / regions consumed by the merge and split loops
    result          \* what the call produced

vars == <<MAX, file, pc, idx, records, regions, data, merged, final_regions,
          cursor, result>>

(***************************************************************************)
(* Bounds of the model.                                                    *)
(***************************************************************************)
\* data lines of the span grid: addresses 0..MaxAddr, payloads 0..MaxPayload
MaxAddr == 2
MaxPayload == 3
\* lines per file
MaxLines == 2
\* region caps tried on the grid: 0..MaxRegion (the mixed files use MaxRegion)
MaxRegion == 2
\* region caps tried on the two worked examples: 0..MaxExampleRegion
MaxExampleRegion == 16
\* byte pairs per line handed to the decoder on its own
MaxPairs == 6

(***************************************************************************)
(* Text and bytes.                                                         *)
(***************************************************************************)
HexChars == <<"0", "1", "2", "3", "4", "5", "6", "7", "8", "9",
              "A", "B", "C", "D", "E", "F">>

LowerHexChars == <<"0", "1", "2", "3", "4", "5", "6", "7", "8", "9",
                   "a", "b", "c", "d", "e", "f">>

\* char::to_digit(16): the digit's value, or -1 for a character that is none
to_digit(c) ==
    IF \E i \in 1..16 : HexChars[i] = c
    THEN (CHOOSE i \in 1..16 : HexChars[i] = c) - 1
    ELSE IF \E i \in 1..16 : LowerHexChars[i] = c
         THEN (CHOOSE i \in 1..16 : LowerHexChars[i] = c) - 1
         ELSE -1

\* u8::from_str_radix(src, 16) on a one- or two-character slice, followed by
\* unwrap_or(0): an optional leading '+', then hex digits; anything else is 0
from_str_radix_or_0(src) ==
    LET digits == IF Len(src) > 1 /\ src[1] = "+" THEN Tail(src) ELSE src
    IN  IF Len(src) = 1 /\ src[1] \in {"+", "-"} THEN 0
        ELSE IF \E i \in 1..Len(digits) : to_digit(digits[i]) < 0 THEN 0
        ELSE IF Len(digits) = 1 THEN to_digit(digits[1])
        ELSE 16 * to_digit(digits[1]) + to_digit(digits[2])

IsWhitespace(c) == c \in {" ", "\t", "\r"}

RECURSIVE trim_start(_)
trim_start(s) ==
    IF s # <<>> /\ IsWhitespace(Head(s)) THEN trim_start(Tail(s)) ELSE s

RECURSIVE trim_end(_)
trim_end(s) ==
    IF s # <<>> /\ IsWhitespace(s[Len(s)])
    THEN trim_end(SubSeq(s, 1, Len(s) - 1))
    ELSE s

\* str::trim
trim(s) == trim_end(trim_start(s))

RECURSIVE SumBytes(_)
SumBytes(bytes) ==
    IF bytes = <<>> THEN 0 ELSE Head(bytes) + SumBytes(Tail(bytes))

\* String::from_utf8_lossy on bytes none of which is a UTF-8 continuation
\* byte (0x80..0xBF): an ASCII byte is its own character, every other byte is
\* an invalid sequence of its own and becomes U+FFFD (65533)
from_utf8_lossy(bytes) ==
    [i \in 1..Len(bytes) |-> IF bytes[i] < 128 THEN bytes[i] ELSE 65533]

(***************************************************************************)
(* Results.                                                                *)
(***************************************************************************)
Ok(v) == [tag |-> "Ok", value |-> v]
Err(e) == [tag |-> "Err", err |-> e]
\* an index or slice out of range: the thread panics, nothing is returned
Panic == [tag |-> "Panic"]

(***************************************************************************)
(* Record::parse_from_str.  bytes is 1-based here: the code's bytes[k] is  *)
(* bytes[k + 1], and its slice bytes[a..len-1] is SubSeq(bytes, a+1, len-1)*)
(* which the code refuses (panics) when a > len - 1.                       *)
(***************************************************************************)
\* the (2..record.len()).step_by(2) map: one byte per two characters
decode_bytes(record) ==
    [j \in 1..((Len(record) - 2) \div 2) |->
        from_str_radix_or_0(SubSeq(record, 2 * j + 1, 2 * j + 2))]

be16(bytes) == bytes[2] * 256 + bytes[3]
be24(bytes) == bytes[2] * 65536 + bytes[3] * 256 + bytes[4]
be32(bytes) == bytes[2] * 16777216 + bytes[3] * 65536 + bytes[4] * 256 + bytes[5]

\* the `match rec_type` of parse_from_str, after the checksum has passed
extract_fields(rec_type, bytes) ==
    LET len == Len(bytes)
        payload(from) == SubSeq(bytes, from + 1, len - 1)
    IN  CASE rec_type = "0" ->
               IF len < 3 THEN Panic
               ELSE Ok([type |-> "S0", text |-> from_utf8_lossy(payload(2))])
          [] rec_type = "1" ->
               IF len < 4 THEN Panic
               ELSE Ok([type |-> "S1", address |-> be16(bytes), data |-> payload(3)])
          [] rec_type = "2" ->
               IF len < 5 THEN Panic
               ELSE Ok([type |-> "S2", address |-> be24(bytes), data |-> payload(4)])
          [] rec_type = "3" ->
               IF len < 6 THEN Panic
               ELSE Ok([type |-> "S3", address |-> be32(bytes), data |-> payload(5)])
          [] rec_type = "4" -> Ok([type |-> "S4"])
          [] rec_type = "5" ->
               IF len < 3 THEN Panic
               ELSE Ok([type |-> "S5", count |-> be16(bytes)])
          [] rec_type = "6" ->
               IF len < 4 THEN Panic
               ELSE Ok([type |-> "S6", count |-> be24(bytes)])
          [] rec_type = "7" ->
               IF len < 5 THEN Panic
               ELSE Ok([type |-> "S7", address |-> be32(bytes)])
          [] rec_type = "8" ->
               IF len < 4 THEN Panic
               ELSE Ok([type |-> "S8", address |-> be24(bytes)])
          [] rec_type = "9" ->
               IF len < 3 THEN Panic
               ELSE Ok([type |-> "S9", address |-> be16(bytes)])
          [] OTHER -> Err("DataLengthError")

parse_from_str(line) ==
    LET record == trim(line)
    IN  IF record = <<>> \/ record[1] # "S" \/ Len(record) < 2
        THEN Err("DataLengthError")
        ELSE IF (Len(record) - 2) % 2 = 1
             THEN Panic   \* &record[i..i + 2] runs past the end of the text
             ELSE LET bytes == decode_bytes(record)
                  IN  IF SumBytes(bytes) % 256 # 255
                      THEN Err("CheckSumError")
                      ELSE extract_fields(record[2], bytes)

(***************************************************************************)
(* SRecord::<MAX>::from_srec: the passes over the spans.                   *)
(***************************************************************************)
\* the span a decoded record contributes to `regions`, and its payload
IsData(rec) == rec.type \in {"S1", "S2", "S3"}

\* Vec::insert of a span behind every span whose key is <= its own
RECURSIVE insert_sorted(_, _)
insert_sorted(sorted, span) ==
    IF sorted = <<>> THEN <<span>>
    ELSE IF span[1] < Head(sorted)[1] THEN <<span>> \o sorted
         ELSE <<Head(sorted)>> \o insert_sorted(Tail(sorted), span)

\* regions.sort_by_key(|&(addr, _)| addr): a stable sort by address
RECURSIVE sort_by_key(_)
sort_by_key(spans) ==
    IF spans = <<>> THEN <<>>
    ELSE insert_sorted(sort_by_key(SubSeq(spans, 1, Len(spans) - 1)),
                       spans[Len(spans)])

Max2(a, b) == IF a >= b THEN a ELSE b

\* one iteration of `for (addr, size) in regions` of the merge pass
merge_span(m, span, max) ==
    LET addr == span[1]
        size == span[2]
    IN  IF m = <<>> THEN <<span>>
        ELSE LET last_addr == m[Len(m)][1]
                 last_size == m[Len(m)][2]
                 last_end == last_addr + last_size
                 new_end == Max2(addr + size, last_end)
                 region_size == new_end - last_addr
                 allowed == max - last_size
             IN  IF addr <= last_end /\ (last_end - last_addr) < max
                 THEN IF region_size <= max
                      THEN [m EXCEPT ![Len(m)] = <<last_addr, region_size>>]
                      ELSE Append([m EXCEPT ![Len(m)] = <<last_addr, max>>],
                                  <<addr, size - allowed>>)
                 ELSE Append(m, span)

Address32(a) == [width |-> 32, value |-> a]

\* the split pass without its while loop: an oversized region is kept whole
split_region_unsplit(addr, size, max) ==
    IF size > 0 THEN <<(<<Address32(addr), size>>)>> ELSE <<>>

\* the split pass without `addr += MAX`: every chunk starts where the first did
RECURSIVE split_region_same_addr(_, _, _)
split_region_same_addr(addr, size, max) ==
    IF size > max
    THEN <<(<<Address32(addr), max>>)>> \o split_region_same_addr(addr, size - max, max)
    ELSE IF size > 0 THEN <<(<<Address32(addr), size>>)>> ELSE <<>>

\* the body of `for (mut addr, mut size) in merged` of the split pass, for a
\* cap max > 0 (with max = 0 and size > 0 the while loop never ends)
RECURSIVE split_region(_, _, _)
split_region(addr, size, max) ==
    IF size > max
    THEN <<(<<Address32(addr), max>>)>> \o split_region(addr + max, size - max, max)
    ELSE IF size > 0 THEN <<(<<Address32(addr), size>>)>> ELSE <<>>

\* records of type S1/S2/S3 push (address as u32, data.len()) ...
push_region(spans, rec) ==
    IF IsData(rec) THEN Append(spans, <<rec.address, Len(rec.data)>>) ELSE spans

\* data.extend(&d.data) with the payload put in front of the buffer
extend_data_in_front(buffer, rec) ==
    IF IsData(rec) THEN rec.data \o buffer ELSE buffer

\* ... and data.extend(&d.data)
extend_data(buffer, rec) ==
    IF IsData(rec) THEN buffer \o rec.data ELSE buffer

\* the image the call returns
Image ==
    [record |-> records, data_memory_layout |-> final_regions, data |-> data,
     data_length |-> Len(data)]

(***************************************************************************)
(* The steps of from_srec.                                                 *)
(***************************************************************************)
Return(r) ==
    /\ result' = r
    /\ pc' = "done"

\* a line was read and decoded: push its span, payload and record
ReadRecord ==
    /\ pc = "read"
    /\ idx < Len(file)
    /\ file[idx + 1].ok
    /\ LET r == parse_from_str(file[idx + 1].text)
       IN  /\ r.tag = "Ok"
           /\ records' = Append(records, r.value)
           /\ regions' = push_region(regions, r.value)
           /\ data' = extend_data(data, r.value)
    /\ idx' = idx + 1
    /\ UNCHANGED <<MAX, file, pc, merged, final_regions, cursor, result>>

\* a decode error that is swallowed: the loop goes on to the next line
ReadDecodeErrorSkipped ==
    /\ pc = "read"
    /\ idx < Len(file)
    /\ file[idx + 1].ok
    /\ parse_from_str(file[idx + 1].text).tag = "Err"
    /\ idx' = idx + 1
    /\ UNCHANGED <<MAX, file, pc, records, regions, data, merged, final_regions,
                   cursor, result>>

\* `?` on a decode error: the call returns it
ReadDecodeError ==
    /\ pc = "read"
    /\ idx < Len(file)
    /\ file[idx + 1].ok
    /\ LET r == parse_from_str(file[idx + 1].text)
       IN  /\ r.tag = "Err"
           /\ Return(r)
    /\ idx' = idx + 1
    /\ UNCHANGED <<MAX, file, records, regions, data, merged, final_regions, cursor>>

\* the decoder indexes past the end of the line's bytes: the call panics
ReadPanic ==
    /\ pc = "read"
    /\ idx < Len(file)
    /\ file[idx + 1].ok
    /\ parse_from_str(file[idx + 1].text) = Panic
    /\ Return(Panic)
    /\ idx' = idx + 1
    /\ UNCHANGED <<MAX, file, records, regions, data, merged, final_regions, cursor>>

\* the reader failed on the line
ReadFailure ==
    /\ pc = "read"
    /\ idx < Len(file)
    /\ ~file[idx + 1].ok
    /\ Return(Err("SrecFileError"))
    /\ UNCHANGED <<MAX, file, idx, records, regions, data, merged, final_regions, cursor>>

\* end of the lines: sort the spans and start the merge pass
EndOfLines ==
    /\ pc = "read"
    /\ idx = Len(file)
    /\ regions' = sort_by_key(regions)
    /\ pc' = "merge"
    /\ UNCHANGED <<MAX, file, idx, records, data, merged, final_regions, cursor, result>>

MergeStep ==
    /\ pc = "merge"
    /\ cursor < Len(regions)
    /\ merged' = merge_span(merged, regions[cursor + 1], MAX)
    /\ cursor' = cursor + 1
    /\ UNCHANGED <<MAX, file, pc, idx, records, regions, data, final_regions, result>>

MergeDone ==
    /\ pc = "merge"
    /\ cursor = Len(regions)
    /\ pc' = "split"
    /\ cursor' = 0
    /\ UNCHANGED <<MAX, file, idx, records, regions, data, merged, final_regions, result>>

SplitStep ==
    /\ pc = "split"
    /\ cursor < Len(merged)
    /\ LET addr == merged[cursor + 1][1]
           size == merged[cursor + 1][2]
       IN  /\ ~(MAX = 0 /\ size > 0)
           /\ final_regions' = final_regions \o split_region(addr, size, MAX)
    /\ cursor' = cursor + 1
    /\ UNCHANGED <<MAX, file, pc, idx, records, regions, data, merged, result>>

\* `while size as u32 > MAX` with MAX = 0: size -= 0 never ends the loop, and
\* the call never returns
SplitForever ==
    /\ pc = "split"
    /\ cursor < Len(merged)
    /\ MAX = 0
    /\ merged[cursor + 1][2] > 0
    /\ pc' = "hang"
    /\ UNCHANGED <<MAX, file, idx, records, regions, data, merged, final_regions,
                   cursor, result>>

Finish ==
    /\ pc = "split"
    /\ cursor = Len(merged)
    /\ Return(Ok(Image))
    /\ UNCHANGED <<MAX, file, idx, records, regions, data, merged, final_regions, cursor>>

(***************************************************************************)
(* Record::parse_from_str called on its own.                               *)
(***************************************************************************)
ParseLine ==
    /\ pc = "parse"
    /\ result' = parse_from_str(file[1].text)
    /\ pc' = "parsed"
    /\ UNCHANGED <<MAX, file, idx, records, regions, data, merged, final_regions, cursor>>

(***************************************************************************)
(* Inputs: lines of text, written the way an S-record file spells them.    *)
(***************************************************************************)
Line(text) == [ok |-> TRUE, text |-> text]
\* a line the reader fails on (an I/O error, or bytes that are not UTF-8)
ReadError == [ok |-> FALSE, text |-> <<>>]

Hex2(b) == <<HexChars[(b \div 16) + 1], HexChars[(b % 16) + 1]>>

RECURSIVE HexText(_)
HexText(bytes) ==
    IF bytes = <<>> THEN <<>> ELSE Hex2(Head(bytes)) \o HexText(Tail(bytes))

\* the one's-complement checksum byte closing a line whose bytes are `body`
ChecksumOf(body) == 255 - (SumBytes(body) % 256)

\* 'S', the type digit, then byte count, fields and checksum in hex
RecordLine(digit, fields) ==
    LET body == <<Len(fields) + 1>> \o fields
    IN  <<"S", digit>> \o HexText(body \o <<ChecksumOf(body)>>)

\* the same line with a checksum byte that is off by one
BadChecksumLine(digit, fields) ==
    LET body == <<Len(fields) + 1>> \o fields
    IN  <<"S", digit>> \o HexText(body \o <<(ChecksumOf(body) + 1) % 256>>)

\* the payload of the data line at addr: bytes that tell the lines apart
PayloadOf(addr, n) == [j \in 1..n |-> (16 * addr + j) % 256]

S1Line(addr, n) ==
    RecordLine("1", <<addr \div 256, addr % 256>> \o PayloadOf(addr, n))

S2Line(addr, n) ==
    RecordLine("2", <<addr \div 65536, (addr \div 256) % 256, addr % 256>>
                    \o PayloadOf(addr, n))

S3Line(addr, n) ==
    RecordLine("3", <<addr \div 16777216, (addr \div 65536) % 256,
                      (addr \div 256) % 256, addr % 256>> \o PayloadOf(addr, n))

SeqsUpTo(S, n) == UNION {[1..k -> S] : k \in 0..n}

\* the span grid: S1 data lines at every address and payload length
GridLines == {Line(S1Line(a, n)) : a \in 0..MaxAddr, n \in 0..MaxPayload}

\* one line of every record type, and lines that fail in every way
MixedLines ==
    { Line(RecordLine("0", <<0, 0, 72, 68, 82, 255>>)),
      Line(S1Line(1, 2)),
      Line(S2Line(0, 2)),
      Line(S2Line(66688, 1)),
      Line(S3Line(2, 1)),
      Line(RecordLine("4", <<>>)),
      Line(RecordLine("5", <<0, 3>>)),
      Line(RecordLine("6", <<0, 0, 3>>)),
      Line(RecordLine("7", <<0, 0, 0, 0>>)),
      Line(RecordLine("8", <<0, 0, 0>>)),
      Line(RecordLine("9", <<0, 0>>)),
      Line(<<" ", "S", "1", "0", "4", "0", "0", "0", "0", "f", "b", "\r">>),
      Line(BadChecksumLine("1", <<0, 0, 7>>)),
      Line(RecordLine("A", <<0, 0>>)),
      Line(<<"X", "1", "F", "F">>),
      Line(<<>>),
      Line(<<"S", "1", "F", "F">>),
      Line(<<"S", "1", "F">>),
      ReadError }

\* the worked examples: spans (0,10), (10,5), and one span (0, max + 10)
MergeExample == <<Line(S1Line(0, 10)), Line(S1Line(10, 5))>>
SplitExample(max) == <<Line(S1Line(0, max + 10))>>

\* lines for the decoder on its own: a type digit and up to MaxPairs pairs
TypeDigits == {"0", "1", "2", "3", "4", "5", "6", "7", "8", "9"}
PairChoices == {<<"0", "0">>, <<"F", "F">>, <<"f", "e">>, <<"0", "1">>}

RECURSIVE Flatten(_)
Flatten(pairs) ==
    IF pairs = <<>> THEN <<>> ELSE Head(pairs) \o Flatten(Tail(pairs))

\* a 32-bit address field whose value is 2^31 or more (not a number TLC holds)
HighAddress32(d, ps) ==
    d \in {"3", "7"} /\ Len(ps) > 1 /\ from_str_radix_or_0(ps[2]) >= 128

ParseTexts ==
    { <<"S", c[1]>> \o Flatten(c[2]) :
        c \in { x \in TypeDigits \X SeqsUpTo(PairChoices, MaxPairs) :
                  ~HighAddress32(x[1], x[2]) } }
    \cup { l.text : l \in MixedLines }
    \cup { <<"S", "1", "+", "1", "F", "E">>, <<"S", "4", "Z", "Z", "F", "F">>,
           <<"S", "4", "-", "1", "F", "F">>, <<"S">> }

(***************************************************************************)
(* The specifications.                                                     *)
(***************************************************************************)
Fresh ==
    /\ idx = 0
    /\ records = <<>>
    /\ regions = <<>>
    /\ data = <<>>
    /\ merged = <<>>
    /\ final_regions = <<>>
    /\ cursor = 0
    /\ result = [tag |-> "None"]

\* SRecord::<MAX>::from_srec(f) is entered
Init ==
    /\ Fresh
    /\ pc = "read"
    /\ \/ /\ MAX \in 0..MaxRegion
          /\ file \in SeqsUpTo(GridLines, MaxLines)
       \/ /\ MAX = MaxRegion
          /\ file \in SeqsUpTo(MixedLines, MaxLines)
       \/ /\ MAX \in 0..MaxExampleRegion
          /\ file \in {MergeExample, SplitExample(MAX)}

Next ==
    \/ ReadRecord
    \/ ReadDecodeError
    \/ ReadPanic
    \/ ReadFailure
    \/ EndOfLines
    \/ MergeStep
    \/ MergeDone
    \/ SplitStep
    \/ SplitForever
    \/ Finish

Spec == Init /\ [][Next]_vars

\* Record::parse_from_str(line) is entered
InitParse ==
    /\ Fresh
    /\ pc = "parse"
    /\ MAX = 0
    /\ file \in {<<Line(t)>> : t \in ParseTexts}

NextParse == ParseLine

SpecParse == InitParse /\ [][NextParse]_vars

(***************************************************************************)
(* What the properties speak of.                                           *)
(***************************************************************************)
Returned == result.tag = "Ok"

\* the data spans in arrival order, read off the decoded records
RECURSIVE SpansOf(_)
SpansOf(recs) ==
    IF recs = <<>> THEN <<>>
    ELSE (IF IsData(Head(recs))
          THEN <<(<<Head(recs).address, Len(Head(recs).data)>>)>>
          ELSE <<>>) \o SpansOf(Tail(recs))

\* the payloads of the data records, one after the other
RECURSIVE PayloadsOf(_)
PayloadsOf(recs) ==
    IF recs = <<>> THEN <<>>
    ELSE (IF IsData(Head(recs)) THEN Head(recs).data ELSE <<>>) \o PayloadsOf(Tail(recs))

RECURSIVE PayloadLengthSum(_)
PayloadLengthSum(recs) ==
    IF recs = <<>> THEN 0
    ELSE (IF IsData(Head(recs)) THEN Len(Head(recs).data) ELSE 0)
         + PayloadLengthSum(Tail(recs))

\* a layout as plain (address, size) pairs
Pairs(layout) == [i \in 1..Len(layout) |-> <<layout[i][1].value, layout[i][2]>>]

ReturnedLayout == Pairs(result.value.data_memory_layout)

\* the byte addresses a sequence of (address, size) pairs covers
Covered(pairs) ==
    UNION {pairs[i][1]..(pairs[i][1] + pairs[i][2] - 1) : i \in 1..Len(pairs)}

\* the layout of a span sequence: sort, merge pass, split pass
RECURSIVE MergeAll(_, _, _)
MergeAll(m, spans, max) ==
    IF spans = <<>> THEN m
    ELSE MergeAll(merge_span(m, Head(spans), max), Tail(spans), max)

RECURSIVE SplitAll(_, _)
SplitAll(m, max) ==
    IF m = <<>> THEN <<>>
    ELSE split_region(Head(m)[1], Head(m)[2], max) \o SplitAll(Tail(m), max)

LayoutOf(spans, max) == Pairs(SplitAll(MergeAll(<<>>, sort_by_key(spans), max), max))

NonEmptySpan(span) == span[2] > 0

\* what the loop of from_srec gets from a line
LineOutcome(l) == IF l.ok THEN parse_from_str(l.text) ELSE Err("SrecFileError")

\* the first line that is not read and decoded to a record (0: there is none)
FirstFailing ==
    IF \E k \in 1..Len(file) : LineOutcome(file[k]).tag # "Ok"
    THEN CHOOSE k \in 1..Len(file) :
            /\ LineOutcome(file[k]).tag # "Ok"
            /\ \A j \in 1..(k - 1) : LineOutcome(file[j]).tag = "Ok"
    ELSE 0

(***************************************************************************)
(* Properties of from_srec.                                                *)
(***************************************************************************)
\* C1: every region of a returned memory layout has length <= MAX.
RegionsWithinMax ==
    Returned => \A i \in 1..Len(ReturnedLayout) : ReturnedLayout[i][2] <= MAX

\* C1 witness: an image is returned for a file with a span longer than MAX,
\* which the split pass cut into several regions.
RegionsWithinMaxWitness ==
    /\ Returned
    /\ \E i \in 1..Len(regions) : regions[i][2] > MAX
    /\ Len(ReturnedLayout) > 1

\* C2: a returned layout is in non-decreasing address order and no two of
\* its regions overlap: consecutive regions (a_i, n_i), (a_j, n_j) have
\* a_i + n_i <= a_j.
LayoutOrderedAndDisjoint ==
    Returned =>
        \A i \in 1..(Len(ReturnedLayout) - 1) :
            ReturnedLayout[i][1] + ReturnedLayout[i][2] <= ReturnedLayout[i + 1][1]

\* C3: the spans (0,10), (10,5) give the single region (0,15) for every
\* MAX >= 15, and exactly the regions (0,12), (12,3) for MAX = 12.
MergeExampleRegions ==
    (Returned /\ SpansOf(records) = <<(<<0, 10>>), (<<10, 5>>)>>) =>
        /\ MAX >= 15 => ReturnedLayout = <<(<<0, 15>>)>>
        /\ MAX = 12 => ReturnedLayout = <<(<<0, 12>>), (<<12, 3>>)>>

\* C4 as stated: for every MAX, the single span (0, MAX + 10) gives exactly
\* the two regions (0, MAX), (MAX, 10).
SplitExampleTwoRegions ==
    (Returned /\ SpansOf(records) = <<(<<0, MAX + 10>>)>>) =>
        ReturnedLayout = <<(<<0, MAX>>), (<<MAX, 10>>)>>

\* C4 amended: for every MAX >= 10, the single span (0, MAX + 10) gives
\* exactly the two regions (0, MAX), (MAX, 10).
SplitExampleTwoRegionsFromTen ==
    (Returned /\ MAX >= 10 /\ SpansOf(records) = <<(<<0, MAX + 10>>)>>) =>
        ReturnedLayout = <<(<<0, MAX>>), (<<MAX, 10>>)>>

\* C4 witness: the call returned for the single span (0, MAX + 10), MAX >= 10.
SplitExampleWitness ==
    /\ Returned
    /\ MAX >= 10
    /\ SpansOf(records) = <<(<<0, MAX + 10>>)>>
    /\ Len(ReturnedLayout) = 2

\* C5: in a returned image data_length is the length of data, both are the
\* sum of the payload lengths of the S1/S2/S3 records of the record sequence,
\* and data is those payloads concatenated in arrival order.
DataIsPayloadsInArrivalOrder ==
    Returned =>
        /\ result.value.data_length = Len(result.value.data)
        /\ result.value.data_length = PayloadLengthSum(result.value.record)
        /\ result.value.data = PayloadsOf(result.value.record)

\* C5 witness: an image returned for two data lines with payloads, the one
\* at the higher address arriving first.
DataIsPayloadsWitness ==
    /\ Returned
    /\ Len(result.value.record) = 2
    /\ \A i \in 1..2 : IsData(result.value.record[i]) /\ result.value.record[i].data # <<>>
    /\ result.value.record[1].address > result.value.record[2].address

\* C6: the call is all-or-nothing and fails on the first error in line order:
\* an error returned is the error of the earliest failing line, every line
\* before it was decoded to a record and no line after it was decoded, and no
\* image comes with it; when the earliest failing line fails with an error,
\* the finished call returned it; an image is returned (and the passes over
\* the spans are entered) only when every line was read and decoded.
FirstErrorOnly ==
    /\ result.tag = "Err" =>
          /\ FirstFailing > 0
          /\ result = LineOutcome(file[FirstFailing])
          /\ Len(records) = FirstFailing - 1
          /\ idx <= FirstFailing
          /\ DOMAIN result = {"tag", "err"}
          /\ final_regions = <<>>
    /\ (pc = "done" /\ FirstFailing > 0 /\ LineOutcome(file[FirstFailing]).tag = "Err") =>
          result = LineOutcome(file[FirstFailing])
    /\ (Returned \/ pc \in {"merge", "split", "hang"}) =>
          /\ FirstFailing = 0
          /\ idx = Len(file)
          /\ Len(records) = Len(file)

\* C6 witness: the first of two lines failed and its error was returned,
\* the second line, which would have decoded, never reaching the decoder.
FirstErrorOnlyWitness ==
    /\ result.tag = "Err"
    /\ Len(file) = 2
    /\ FirstFailing = 1
    /\ LineOutcome(file[2]).tag = "Ok"
    /\ idx <= 1

\* C9: a zero-length span contributes nothing: a returned layout is the
\* layout of the same span sequence with its zero-length spans removed.
ZeroLengthSpansAreNoOps ==
    Returned =>
        ReturnedLayout = LayoutOf(SelectSeq(SpansOf(records), NonEmptySpan), MAX)

\* C10: for MAX >= 1 the byte addresses the regions of a returned layout
\* cover are exactly the byte addresses the data spans cover.
CoveragePreserved ==
    (Returned /\ MAX >= 1) => Covered(ReturnedLayout) = Covered(SpansOf(records))

(***************************************************************************)
(* Properties of parse_from_str.                                           *)
(***************************************************************************)
IsHexDigit(c) == to_digit(c) >= 0

\* 'S', a type digit 0..9, then hex byte pairs and nothing else
WellFormed(text) ==
    /\ Len(text) >= 2
    /\ text[1] = "S"
    /\ text[2] \in TypeDigits
    /\ Len(text) % 2 = 0
    /\ \A i \in 3..Len(text) : IsHexDigit(text[i])

ParsedText == file[1].text

ParsedBytes == decode_bytes(ParsedText)

\* the bytes are one byte, not the last, away from bytes summing to 255
OneByteChanged(bytes) ==
    \E p \in 1..(Len(bytes) - 1) : \E v \in 0..255 :
        /\ v # bytes[p]
        /\ (SumBytes(bytes) - bytes[p] + v) % 256 = 255

\* the bytes a type digit needs for its fields to be indexed at all
NeededBytes(digit) ==
    CASE digit \in {"0", "5", "9"} -> 3
      [] digit \in {"1", "6", "8"} -> 4
      [] digit \in {"2", "7"} -> 5
      [] digit = "3" -> 6
      [] OTHER -> 0

\* C7: a line 'S' + type digit + hex byte pairs whose bytes sum to 255
\* modulo 256 decodes to a record; and such a line with one byte other than
\* the last changed fails with CheckSumError.
ChecksumProperty ==
    (pc = "parsed" /\ WellFormed(ParsedText) /\ ParsedBytes # <<>>) =>
        /\ SumBytes(ParsedBytes) % 256 = 255 => result.tag = "Ok"
        /\ OneByteChanged(ParsedBytes) => result = Err("CheckSumError")

\* C8: a line whose bytes are fewer than its type digit requires makes the
\* decoder return DataLengthError instead of crashing.  Stated for the lines
\* that pass the checksum and are short even for the indexing of the fields
\* (every such line is shorter than the minimum the format gives its type).
ShortLineIsLengthError ==
    (/\ pc = "parsed"
     /\ WellFormed(ParsedText)
     /\ SumBytes(ParsedBytes) % 256 = 255
     /\ Len(ParsedBytes) < NeededBytes(ParsedText[2])) =>
        result = Err("DataLengthError")

====
